---- MODULE Spec2Model ----
(***************************************************************************)
(* rmf_robot_sim_common/utils.hpp: the dual-backend entity identity        *)
(* (SimEntity), the motion limits (MotionParams), the Eigen <-> Ignition   *)
(* conversions, and the rate controller compute_desired_rate_of_change.    *)
(*                                                                         *)
(* The header only declares compute_desired_rate_of_change; its body is    *)
(* not part of the sources at hand, so the controller is modelled from the *)
(* algorithm of the design document (section 4.1, steps 1 to 5).  Step 6   *)
(* of that section states a required result, not a computation, and is     *)
(* checked as a property instead of being built into the model.            *)
(*                                                                         *)
(* Quantities are exact integers (rationals on a common grid): a velocity  *)
(* v, an acceleration a, a time step dt and a displacement s satisfy       *)
(* dv = a * dt and ds = v * dt with no rounding.                           *)
(***************************************************************************)
EXTENDS Integers, Sequences, FiniteSets, TLC

VARIABLES
  params,             \* MotionParams handed to the controller
  s_target,           \* _s_target: signed displacement to destination
  v_actual,           \* _v_actual: current velocity
  speed_target_now,   \* _speed_target_now
  speed_target_dest,  \* _speed_target_dest
  dt,                 \* _dt
  v_new,              \* value returned by the last controller call
  pc,                 \* position of the caller / of the object under test
  start_in_range,     \* the run began with 0 <= v_actual <= v_max, s_target >= 0
  bound,              \* the MotionParams object was passed to the controller
  passed,             \* the MotionParams value the controller was given
  ent,                \* a SimEntity object
  ctor,               \* the value ent had when its constructor returned
  ret,                \* what the last SimEntity accessor call produced
  eig_v, ign_v,       \* Eigen::Vector3d / Ignition vector
  eig_q, ign_q,       \* Eigen::Quaterniond / Ignition quaternion
  src                 \* the value a conversion round trip started from

vars == <<params, s_target, v_actual, speed_target_now, speed_target_dest, dt,
          v_new, pc, start_in_range, bound, passed, ent, ctor, ret,
          eig_v, ign_v, eig_q, ign_q, src>>

ctrlVars == <<s_target, v_actual, speed_target_now, speed_target_dest,
              dt, v_new, start_in_range>>
paramVars == <<params, bound, passed>>
entVars == <<ent, ctor, ret>>
convVars == <<eig_v, ign_v, eig_q, ign_q, src>>

---------------------------------------------------------------------------
(* Bounds of the model *)
MaxVmax == 2
MaxAmax == 2
MaxDxMin == 2
MaxSpeedTarget == 3
MaxV == 5
MaxS == 5
MaxDt == 2

---------------------------------------------------------------------------
(* Arithmetic helpers *)
Abs(x) == IF x < 0 THEN -x ELSE x
Sign(x) == IF x > 0 THEN 1 ELSE IF x < 0 THEN -1 ELSE 0
Min(a, b) == IF a <= b THEN a ELSE b
Max(a, b) == IF a >= b THEN a ELSE b

---------------------------------------------------------------------------
(* MotionParams *)

\* The record type: four doubles, any value representable.
MotionParams(vmax, amax, anom, dxmin) ==
  [v_max |-> vmax, a_max |-> amax, a_nom |-> anom, dx_min |-> dxmin]

\* The validity the design document requires of a MotionParams.
ValidParams(p) ==
  /\ p.v_max > 0
  /\ p.a_max > 0
  /\ p.a_nom > 0
  /\ p.a_nom <= p.a_max
  /\ p.dx_min >= 0

---------------------------------------------------------------------------
(* Rate controller, section 4.1 of the design document *)

\* Tolerance of the zero-displacement snap of step 2 ("a small tolerance").
SnapTolerance == 2

\* Variant: the limit on the change is not applied.
MoveToward_Unlimited(v, target, maxstep) == target

\* v moved toward target by at most maxstep.
MoveToward(v, target, maxstep) ==
  IF target >= v THEN Min(target, v + maxstep) ELSE Max(target, v - maxstep)

\* Step 5: the resulting magnitude is clipped to v_max.
ClipToVmax(v, vmax) ==
  IF v > vmax THEN vmax ELSE IF v < -vmax THEN -vmax ELSE v

\* Step 1.
Dir(s) == Sign(s)
Dist(s) == Abs(s)

\* Step 2: the deadband test.
InDeadband(s, p) == Dist(s) < p.dx_min

\* Step 2: when the snap applies.
SnapApplies(s, v, dest) ==
  Dist(s) = 0 /\ Abs(v - Dir(s) * dest) <= SnapTolerance

\* Variant: the deadband leaves the velocity as it is.
DeadbandStep_Hold(s, v, dest, p, h) == v

\* Step 2: the deadband result; returned as is.
DeadbandStep(s, v, dest, p, h) ==
  IF SnapApplies(s, v, dest)
  THEN Dir(s) * dest
  ELSE MoveToward(v, Dir(s) * dest, p.a_max * h)

\* Variant: the destination speed is left out of the braking distance.
TwiceAmaxBrakeDist_NoDest(s, v, dest) ==
  IF Sign(v) = Dir(s) /\ Abs(v) > dest THEN v * v ELSE 0

\* Step 3: 2 * a_max * d_brake (the braking distance, kept free of division).
TwiceAmaxBrakeDist(s, v, dest) ==
  IF Sign(v) = Dir(s) /\ Abs(v) > dest THEN v * v - dest * dest ELSE 0

\* Variant: dist < d_brake.
ShouldBrake_Strict(s, v, dest, p) ==
  2 * p.a_max * Dist(s) < TwiceAmaxBrakeDist(s, v, dest)

\* Step 4: dist <= d_brake.
ShouldBrake(s, v, dest, p) ==
  2 * p.a_max * Dist(s) <= TwiceAmaxBrakeDist(s, v, dest)

\* The regime a call is in.
Regime(s, v, dest, p) ==
  IF InDeadband(s, p) THEN "deadband"
  ELSE IF ShouldBrake(s, v, dest, p) THEN "brake"
  ELSE "cruise"

\* Steps 4 and 5, braking branch.
BrakeStep(s, v, dest, p, h) ==
  ClipToVmax(MoveToward(v, Dir(s) * dest, p.a_max * h), p.v_max)

\* Steps 4 and 5, accelerate/cruise branch.
CruiseStep(s, v, now, p, h) ==
  ClipToVmax(MoveToward(v, Dir(s) * now, p.a_nom * h), p.v_max)

compute_desired_rate_of_change(s, v, now, dest, p, h) ==
  LET r == Regime(s, v, dest, p) IN
  IF r = "deadband" THEN DeadbandStep(s, v, dest, p, h)
  ELSE IF r = "brake" THEN BrakeStep(s, v, dest, p, h)
  ELSE CruiseStep(s, v, now, p, h)

---------------------------------------------------------------------------
(* Controller runs: valid MotionParams and valid call arguments *)

ParamsRange ==
  { MotionParams(vm, am, an, dx) :
      vm \in 1..MaxVmax, am \in 1..MaxAmax, an \in 1..MaxAmax,
      dx \in 0..MaxDxMin }

\* Parts of the state a specification does not use stay at these values.
NoEntity == [sim_type |-> "Ignition", entity |-> 0, name |-> ""]
NoRet ==
  [op |-> "none", self |-> NoEntity, failed |-> FALSE, logged |-> FALSE,
   name |-> "", entity |-> 0]
ZeroEigVec == <<0, 0, 0>>
ZeroIgnVec == [X |-> 0, Y |-> 0, Z |-> 0]
ZeroEigQuat == [w |-> 0, x |-> 0, y |-> 0, z |-> 0]
ZeroIgnQuat == [W |-> 0, X |-> 0, Y |-> 0, Z |-> 0]

EntityIdle == ent = NoEntity /\ ctor = NoEntity /\ ret = NoRet
ConvIdle ==
  /\ eig_v = ZeroEigVec /\ ign_v = ZeroIgnVec
  /\ eig_q = ZeroEigQuat /\ ign_q = ZeroIgnQuat
  /\ src = ZeroEigVec
ControllerIdle ==
  /\ s_target = 0 /\ v_actual = 0 /\ speed_target_now = 0
  /\ speed_target_dest = 0 /\ dt = 1 /\ v_new = 0 /\ start_in_range = FALSE

Init ==
  /\ params \in { p \in ParamsRange : ValidParams(p) }
  /\ s_target \in -MaxS..MaxS
  /\ v_actual \in -MaxV..MaxV
  /\ speed_target_now \in 0..MaxSpeedTarget
  /\ speed_target_dest \in 0..MaxSpeedTarget
  /\ dt \in 1..MaxDt
  /\ v_new = 0
  /\ pc = "idle"
  /\ start_in_range = (v_actual >= 0 /\ v_actual <= params.v_max /\ s_target >= 0)
  /\ bound = TRUE
  /\ passed = params
  /\ EntityIdle
  /\ ConvIdle

\* One tick: the caller invokes the controller with the current inputs.
Step ==
  /\ pc = "idle"
  /\ v_new' = compute_desired_rate_of_change(
                s_target, v_actual, speed_target_now, speed_target_dest,
                params, dt)
  /\ pc' = "returned"
  /\ UNCHANGED <<s_target, v_actual, speed_target_now, speed_target_dest,
                 dt, start_in_range>>
  /\ UNCHANGED <<paramVars, entVars, convVars>>

\* The caller applies the returned velocity and integrates the displacement.
Apply ==
  /\ pc = "returned"
  /\ Abs(s_target - v_new * dt) <= MaxS + MaxV * MaxDt
  /\ v_actual' = v_new
  /\ s_target' = s_target - v_new * dt
  /\ pc' = "idle"
  /\ UNCHANGED <<speed_target_now, speed_target_dest, dt, v_new,
                 start_in_range>>
  /\ UNCHANGED <<paramVars, entVars, convVars>>

Next == Step \/ Apply

Spec == Init /\ [][Next]_vars

---------------------------------------------------------------------------
(* Properties of the rate controller *)

\* A call has returned; the inputs it was given are still in place.
Returned == pc = "returned"
AmaxDt == params.a_max * dt
AnomDt == params.a_nom * dt
DestVel == Dir(s_target) * speed_target_dest
NowVel == Dir(s_target) * speed_target_now
Deadband == InDeadband(s_target, params)
Delta == Abs(v_new - v_actual)

\* The snap of the deadband moved the velocity by more than a_max * dt.
SnapJump ==
  /\ Deadband
  /\ SnapApplies(s_target, v_actual, speed_target_dest)
  /\ Abs(v_actual - DestVel) > AmaxDt

\* C1: every returned velocity satisfies |v_new| <= v_max.
C1_VelocityBound == Returned => Abs(v_new) <= params.v_max

C3_NoOvershoot ==
  (start_in_range /\ speed_target_dest = 0) => s_target >= 0

\* x lies between a and b, ends included.
Between(x, a, b) == (a <= x /\ x <= b) \/ (b <= x /\ x <= a)
Closer(target) == Abs(v_new - target) < Abs(v_actual - target)

BrakeDistTimes2Amax ==
  IF Sign(v_actual) = Sign(s_target) /\ Abs(v_actual) > speed_target_dest
  THEN v_actual * v_actual - speed_target_dest * speed_target_dest
  ELSE 0
WithinBrakeDist == 2 * params.a_max * Abs(s_target) <= BrakeDistTimes2Amax

\* The result moved from v_actual toward target using acceleration acc.
BrakedToward(target, accDt) ==
  /\ Between(v_new, v_actual, target)
  /\ v_new = target \/ Delta = accDt

\* C10 as stated: outside the deadband the call brakes toward
\* dir * speed_target_dest with a_max exactly when |s_target| <= d_brake, and
\* otherwise moves toward dir * speed_target_now by at most a_nom * dt.
C10_RegimeAlways ==
  (Returned /\ ~Deadband) =>
    IF WithinBrakeDist
    THEN BrakedToward(DestVel, AmaxDt)
    ELSE Between(v_new, v_actual, NowVel) /\ Delta <= AnomDt

\* C10 amended: the same, for calls with |v_actual| <= v_max; the result of
\* the accelerate/cruise branch never exceeds v_max.
C10_Regime ==
  (Returned /\ ~Deadband /\ Abs(v_actual) <= params.v_max) =>
    IF WithinBrakeDist
    THEN BrakedToward(DestVel, AmaxDt)
    ELSE /\ Between(v_new, v_actual, NowVel)
         /\ Delta <= AnomDt
         /\ Abs(v_new) <= params.v_max

C10_Witness ==
  /\ Returned /\ ~Deadband /\ Abs(v_actual) <= params.v_max
  /\ WithinBrakeDist /\ s_target # 0
  /\ Delta = AmaxDt /\ AmaxDt > AnomDt

StopsInOneCall ==
  \/ Abs(v_actual) <= AmaxDt
  \/ Deadband /\ Abs(v_actual) <= SnapTolerance

---------------------------------------------------------------------------
(* SimEntity *)

MaxHandle == 2
Handles == 0..MaxHandle
Names == {"", "door", "lift"}
Simulators == {"Ignition", "Gazebo"}

\* SimEntity(uint64_t en)
SimEntityFromHandle(en) ==
  [sim_type |-> "Ignition", entity |-> en, name |-> ""]

\* SimEntity(std::string nm)
SimEntityFromName(nm) ==
  [sim_type |-> "Gazebo", entity |-> 0, name |-> nm]

\* get_name(): logs when the object is not a Gazebo one, and returns name.
get_name(e) ==
  [op |-> "get_name", self |-> e, failed |-> FALSE,
   logged |-> (e.sim_type # "Gazebo"), name |-> e.name, entity |-> 0]

\* get_entity(): logs when the object is not an Ignition one, and returns
\* entity.
get_entity(e) ==
  [op |-> "get_entity", self |-> e, failed |-> FALSE,
   logged |-> (e.sim_type # "Ignition"), name |-> "", entity |-> e.entity]

EntityInit ==
  /\ ent \in { SimEntityFromHandle(en) : en \in Handles }
               \cup { SimEntityFromName(nm) : nm \in Names }
  /\ ctor = ent
  /\ ret = NoRet
  /\ pc = "entity"
  /\ params = MotionParams(1, 1, 1, 0) /\ bound = FALSE /\ passed = params
  /\ ControllerIdle
  /\ ConvIdle

EntityFrame == UNCHANGED <<pc, ctor, ctrlVars, paramVars, convVars>>

GetName ==
  /\ pc = "entity"
  /\ ret' = get_name(ent)
  /\ UNCHANGED ent
  /\ EntityFrame

GetEntity ==
  /\ pc = "entity"
  /\ ret' = get_entity(ent)
  /\ UNCHANGED ent
  /\ EntityFrame

\* The data members are public and not const: a caller may assign them.
AssignSimType ==
  /\ pc = "entity"
  /\ \E t \in Simulators : ent' = [ent EXCEPT !.sim_type = t]
  /\ UNCHANGED ret
  /\ EntityFrame

AssignEntity ==
  /\ pc = "entity"
  /\ \E en \in Handles : ent' = [ent EXCEPT !.entity = en]
  /\ UNCHANGED ret
  /\ EntityFrame

AssignName ==
  /\ pc = "entity"
  /\ \E nm \in Names : ent' = [ent EXCEPT !.name = nm]
  /\ UNCHANGED ret
  /\ EntityFrame

EntityNext ==
  GetName \/ GetEntity \/ AssignSimType \/ AssignEntity \/ AssignName

EntitySpec == EntityInit /\ [][EntityNext]_vars

\* The accessor was called on an object as a constructor leaves it.
OnHandleObject == \E en \in Handles : ret.self = SimEntityFromHandle(en)
OnNameObject == \E nm \in Names : ret.self = SimEntityFromName(nm)

\* C5: get_entity on an identity built from a handle returns that handle,
\* get_name on one built from a name returns that name, and the accessor of
\* the other variant signals a failure instead of returning a default.
C5_AccessorCorrect ==
  /\ (ret.op = "get_entity" /\ OnHandleObject)
       => (~ret.failed /\ ret.entity = ret.self.entity)
  /\ (ret.op = "get_name" /\ OnNameObject)
       => (~ret.failed /\ ret.name = ret.self.name)
  /\ (ret.op = "get_name" /\ OnHandleObject) => ret.failed
  /\ (ret.op = "get_entity" /\ OnNameObject) => ret.failed

\* Exactly one variant is populated: the field of the other holds the
\* value the constructor gave it.
OneVariant(e) ==
  \/ e.sim_type = "Ignition" /\ e.name = ""
  \/ e.sim_type = "Gazebo" /\ e.entity = 0

\* C6: after construction and any operations of a caller, exactly one
\* variant is populated and tag and payload are those of construction.
C6_VariantFixed ==
  pc = "entity" => (OneVariant(ent) /\ ent = ctor)

---------------------------------------------------------------------------
(* MotionParams objects: construction, member access, use by the controller *)

\* The default member initializers, in hundredths: 0.2, 0.1, 0.08, 0.01.
DefaultVmax == 20
DefaultAmax == 10
DefaultAnom == 8
DefaultDxMin == 1

DefaultMotionParams ==
  MotionParams(DefaultVmax, DefaultAmax, DefaultAnom, DefaultDxMin)

\* Values a caller may store in a field (a double: any sign).
MaxFieldValue == 2
FieldValues == -1..MaxFieldValue

ParamsInit ==
  /\ params = DefaultMotionParams
  /\ bound = FALSE
  /\ passed = params
  /\ pc = "params"
  /\ ControllerIdle
  /\ EntityIdle
  /\ ConvIdle

ParamsFrame == UNCHANGED <<pc, ctrlVars, entVars, convVars>>

\* The four fields are public and not const; no constructor checks a value.
SetVmax ==
  /\ pc = "params"
  /\ \E x \in FieldValues : params' = [params EXCEPT !.v_max = x]
  /\ UNCHANGED <<bound, passed>>
  /\ ParamsFrame

SetAmax ==
  /\ pc = "params"
  /\ \E x \in FieldValues : params' = [params EXCEPT !.a_max = x]
  /\ UNCHANGED <<bound, passed>>
  /\ ParamsFrame

SetAnom ==
  /\ pc = "params"
  /\ \E x \in FieldValues : params' = [params EXCEPT !.a_nom = x]
  /\ UNCHANGED <<bound, passed>>
  /\ ParamsFrame

SetDxMin ==
  /\ pc = "params"
  /\ \E x \in FieldValues : params' = [params EXCEPT !.dx_min = x]
  /\ UNCHANGED <<bound, passed>>
  /\ ParamsFrame

\* The object is handed to compute_desired_rate_of_change by const reference.
PassToController ==
  /\ pc = "params"
  /\ ~bound
  /\ bound' = TRUE
  /\ passed' = params
  /\ UNCHANGED params
  /\ ParamsFrame

ParamsNext == SetVmax \/ SetAmax \/ SetAnom \/ SetDxMin \/ PassToController

ParamsSpec == ParamsInit /\ [][ParamsNext]_vars

\* C7: every MotionParams the controller is given is valid, and it does not
\* change afterwards.
C7_ValidAtController ==
  (pc = "params" /\ bound) => (ValidParams(passed) /\ params = passed)

---------------------------------------------------------------------------
(* Conversions between Eigen and Ignition Math values *)

MaxComp == 2
Comps == 0..MaxComp

EigVecs == { <<a, b, c>> : a \in Comps, b \in Comps, c \in Comps }
IgnVecs == [X : Comps, Y : Comps, Z : Comps]
EigQuats == [w : Comps, x : Comps, y : Comps, z : Comps]
IgnQuats == [W : Comps, X : Comps, Y : Comps, Z : Comps]

\* Eigen::Vector3d::operator[]: index 0, 1, 2.
EigAt(v, i) == v[i + 1]

\* operator[] of the Ignition vector: index 0, 1, 2 is X, Y, Z.
IgnAt(v, i) == IF i = 0 THEN v.X ELSE IF i = 1 THEN v.Y ELSE v.Z

\* convert(const Eigen::Quaterniond&, IgnQuatT&)
convert_Quaterniond(q) == [W |-> q.w, X |-> q.x, Y |-> q.y, Z |-> q.z]

\* Variant: X and Y take each other's component.
convert_Vector3d_Swapped(v) ==
  [X |-> EigAt(v, 1), Y |-> EigAt(v, 0), Z |-> EigAt(v, 2)]

\* convert(const Eigen::Vector3d&, IgnVec3T&)
convert_Vector3d(v) == [X |-> EigAt(v, 0), Y |-> EigAt(v, 1), Z |-> EigAt(v, 2)]

convert_vec(v) == <<IgnAt(v, 0), IgnAt(v, 1), IgnAt(v, 2)>>

convert_quat(q) == [w |-> q.W, x |-> q.X, y |-> q.Y, z |-> q.Z]

ConvRest ==
  /\ params = MotionParams(1, 1, 1, 0) /\ bound = FALSE /\ passed = params
  /\ ControllerIdle
  /\ EntityIdle

ConvInit ==
  /\ ConvRest
  /\ \/ /\ pc = "vec_eigen"
        /\ eig_v \in EigVecs /\ src = eig_v
        /\ ign_v = ZeroIgnVec /\ eig_q = ZeroEigQuat /\ ign_q = ZeroIgnQuat
     \/ /\ pc = "vec_ign"
        /\ ign_v \in IgnVecs /\ src = ign_v
        /\ eig_v = ZeroEigVec /\ eig_q = ZeroEigQuat /\ ign_q = ZeroIgnQuat
     \/ /\ pc = "quat_eigen"
        /\ eig_q \in EigQuats /\ src = eig_q
        /\ eig_v = ZeroEigVec /\ ign_v = ZeroIgnVec /\ ign_q = ZeroIgnQuat
     \/ /\ pc = "quat_ign"
        /\ ign_q \in IgnQuats /\ src = ign_q
        /\ eig_v = ZeroEigVec /\ ign_v = ZeroIgnVec /\ eig_q = ZeroEigQuat

ConvFrame == UNCHANGED <<src, ctrlVars, paramVars, entVars>>

\* convert(eig_v, ign_v): first leg of a trip from Eigen, second of one from
\* Ignition.
ConvertVec ==
  /\ pc \in {"vec_eigen", "vec_ign_mid"}
  /\ ign_v' = convert_Vector3d(eig_v)
  /\ pc' = IF pc = "vec_eigen" THEN "vec_eigen_mid" ELSE "vec_ign_done"
  /\ UNCHANGED <<eig_v, eig_q, ign_q>>
  /\ ConvFrame

\* eig_v = convert_vec(ign_v)
ConvertVecBack ==
  /\ pc \in {"vec_ign", "vec_eigen_mid"}
  /\ eig_v' = convert_vec(ign_v)
  /\ pc' = IF pc = "vec_ign" THEN "vec_ign_mid" ELSE "vec_eigen_done"
  /\ UNCHANGED <<ign_v, eig_q, ign_q>>
  /\ ConvFrame

\* convert(eig_q, ign_q)
ConvertQuat ==
  /\ pc \in {"quat_eigen", "quat_ign_mid"}
  /\ ign_q' = convert_Quaterniond(eig_q)
  /\ pc' = IF pc = "quat_eigen" THEN "quat_eigen_mid" ELSE "quat_ign_done"
  /\ UNCHANGED <<eig_v, ign_v, eig_q>>
  /\ ConvFrame

\* eig_q = convert_quat(ign_q)
ConvertQuatBack ==
  /\ pc \in {"quat_ign", "quat_eigen_mid"}
  /\ eig_q' = convert_quat(ign_q)
  /\ pc' = IF pc = "quat_ign" THEN "quat_ign_mid" ELSE "quat_eigen_done"
  /\ UNCHANGED <<eig_v, ign_v, ign_q>>
  /\ ConvFrame

ConvNext == ConvertVec \/ ConvertVecBack \/ ConvertQuat \/ ConvertQuatBack

ConvSpec == ConvInit /\ [][ConvNext]_vars

\* C8: a vector or quaternion converted to the other representation and
\* back has every component where it started, in both directions; the
\* intermediate value holds x, y, z (and w) under the same names.
C8_RoundTrip ==
  /\ pc = "vec_eigen_done" => eig_v = src
  /\ pc = "vec_ign_done" => ign_v = src
  /\ pc = "quat_eigen_done" => eig_q = src
  /\ pc = "quat_ign_done" => ign_q = src
  /\ pc = "vec_eigen_mid" =>
       (ign_v.X = src[1] /\ ign_v.Y = src[2] /\ ign_v.Z = src[3])
  /\ pc = "quat_eigen_mid" =>
       (ign_q.W = src.w /\ ign_q.X = src.x /\ ign_q.Y = src.y /\ ign_q.Z = src.z)

C8_Witness ==
  /\ pc = "quat_eigen_done"
  /\ Cardinality({src.w, src.x, src.y}) = 3
  /\ eig_q = src

====
